---- MODULE Spec2Model ----
(***************************************************************************)
(* Module resolution of src/plugin.py (ClickableRequires): find_module and *)
(* the functions below it, over a small file system.                       *)
(*                                                                         *)
(* Representation.  A path string is the sequence of its '/'-separated     *)
(* components; an absolute POSIX path starts with the component "/".  The  *)
(* empty sequence is the empty string.  A module specifier is a string of  *)
(* the same kind ("../pkg" is <<"..", "pkg">>).  Python's None is the      *)
(* outcome with tag "none"; an exception leaving a function is the outcome *)
(* with tag "raise".  Every outcome carries the log of the file-system     *)
(* accesses made while computing it.                                       *)
(*                                                                         *)
(* Paths are POSIX paths: os.path.splitdrive yields no drive, so the drive *)
(* branch of split_path (lines 406-407) is not taken.  The file system has *)
(* no symbolic links and a file is never also a directory.  Whether `is`   *)
(* holds between a path segment made at run time and the literal           *)
(* 'node_modules' (line 373) is left to the interpreter: interned is       *)
(* either value.                                                           *)
(***************************************************************************)
EXTENDS Integers, Sequences, FiniteSets, TLC

VARIABLES
  files,                      \* the paths that are regular files
  manifest,                   \* contents of the package.json files
  interned,                   \* does `is` hold between equal strings
  resolve_extensions,         \* setting resolve_extensions
  webpack_resolve_modules,    \* view setting webpack_resolve_modules
  webpack_resolve_extensions, \* view setting webpack_resolve_extensions
  pc,                         \* "idle" or "done"
  fn,                         \* the function that was called
  module,                     \* its specifier argument
  path,                       \* its path argument
  args,                       \* its alias roots and extensions, if any
  ret,                        \* what it returned
  dirs,                       \* the list node_modules_paths built
  fm,                         \* what find_module did on the way
  outcome                     \* what open_module_file did with the result

env  == <<files, manifest, interned, resolve_extensions,
          webpack_resolve_modules, webpack_resolve_extensions>>
obs  == <<fn, module, path, args, ret, dirs, fm, outcome>>
vars == <<env, pc, obs>>

-----------------------------------------------------------------------------
(* Bounds and the universe of inputs *)

MaxFiles == 3

Root   == <<"/">>
Cwd    == <<"/", "cwd">>
Proj   == <<"/", "p">>
DirX   == <<"/", "p", "node_modules", "x">>
DirQ   == <<"/", "q">>
NM     == <<"/", "p", "node_modules">>
NearNM == <<"/", "p", "node_modules", "x", "node_modules">>

FileUniverse ==
  { NM \o <<"pkg">>,
    NM \o <<"pkg.js">>,
    NM \o <<"pkg.json">>,
    NM \o <<"pkg", "package.json">>,
    NM \o <<"pkg", "index.js">>,
    NM \o <<"pkg", "lib", "entry.js">>,
    NearNM \o <<"pkg.js">>,
    NearNM \o <<"pkg", "package.json">>,
    Proj \o <<"src", "pkg.js">>,
    Proj \o <<"src", "fs.js">>,
    Cwd \o <<"fs">> }

ManifestPaths == { f \in FileUniverse : f[Len(f)] = "package.json" }

Malformed == [valid |-> FALSE, has_main |-> FALSE, main |-> <<>>]
NoMain    == [valid |-> TRUE,  has_main |-> FALSE, main |-> <<>>]
Main(m)   == [valid |-> TRUE,  has_main |-> TRUE,  main |-> m]
ManifestContents == { Malformed, NoMain, Main(<<"lib", "entry.js">>) }

Modules     == { <<"fs">>, <<"..", "pkg">>, <<"pkg">> }
FilePaths   == { DirX, DirQ }
StartPaths  == { DirX, DirQ, Root }
ProbePaths  == { NM \o <<"pkg">>, NearNM \o <<"pkg">> }
ExtensionLists == { <<".js", ".json">>, <<".json", ".js">> }
AliasRoots  == { <<>>, << <<"node_modules">>, <<"src">> >> }
AliasExtensionLists == { <<>>, <<".js">> }
AliasModules == { <<"fs">>, <<"pkg">> }
AliasCallExtensions == ExtensionLists \cup { <<>> }

IsProperPrefix(d, f) == Len(d) < Len(f) /\ SubSeq(f, 1, Len(d)) = d

\* a file is not also a directory
Consistent(fs) == \A d \in fs, f \in fs : ~IsProperPrefix(d, f)

-----------------------------------------------------------------------------
(* os.path *)

IsAbs(p) == Len(p) > 0 /\ p[1] = "/"

Join(a, b) == IF IsAbs(b) THEN b ELSE a \o b

RECURSIVE NormFold(_, _)
NormFold(p, acc) ==
  IF p = <<>> THEN acc
  ELSE LET c == Head(p) IN
    IF c = "." \/ c = "" THEN NormFold(Tail(p), acc)
    ELSE IF c = ".." THEN
      IF acc # <<>> /\ acc[Len(acc)] \notin {"..", "/"}
        THEN NormFold(Tail(p), SubSeq(acc, 1, Len(acc) - 1))
      ELSE IF acc # <<>> /\ acc[Len(acc)] = "/"
        THEN NormFold(Tail(p), acc)
      ELSE NormFold(Tail(p), Append(acc, ".."))
    ELSE NormFold(Tail(p), Append(acc, c))

Normpath(p) == LET n == NormFold(p, <<>>) IN IF n = <<>> THEN <<".">> ELSE n

\* os.path.split: <<head, tail>>, tail a single component
Split(p) ==
  IF p = <<>> THEN << <<>>, "" >>
  ELSE IF p = Root THEN << Root, "" >>
  ELSE << SubSeq(p, 1, Len(p) - 1), p[Len(p)] >>

\* os.path.join(*parts) for a list of components
RECURSIVE JoinAll(_)
JoinAll(parts) ==
  IF parts = <<>> THEN <<>>
  ELSE LET rest == JoinAll(SubSeq(parts, 1, Len(parts) - 1))
           last == parts[Len(parts)]
       IN IF last = "/" THEN Root
          ELSE IF last = "" THEN rest
          ELSE Append(rest, last)

\* os.path.isfile: the kernel resolves the path, "." and ".." included, from
\* the working directory when it is relative
IsFile(p) == Normpath(IF IsAbs(p) THEN p ELSE Cwd \o p) \in files

\* str + str on the last component
Plus(p, s) == [p EXCEPT ![Len(p)] = @ \o s]

-----------------------------------------------------------------------------
(* Outcomes *)

None(l)      == [tag |-> "none",  val |-> <<>>, log |-> l]
Value(p, l)  == [tag |-> "value", val |-> p,    log |-> l]
Raise(p, l)  == [tag |-> "raise", val |-> p,    log |-> l]

After(l, o)  == [o EXCEPT !.log = l \o @]

\* a or b
OrElse(a, b) == IF a.tag = "none" THEN After(a.log, b) ELSE a

Stat(p) == <<"isfile", p>>
Open(p) == <<"open", p>>

-----------------------------------------------------------------------------
(* Utility functions *)

returnIfFile(p, file) ==
  IF p = <<>> THEN None(<<>>)
  ELSE LET _file == IF file # "" THEN Join(p, <<file>>) ELSE p
       IN IF IsFile(_file) THEN Value(_file, <<Stat(_file)>>)
          ELSE None(<<Stat(_file)>>)

CORE_MODULES ==
  { "assert", "buffer", "child_process", "cluster", "crypto", "dgram", "dns",
    "domain", "events", "fs", "http", "https", "net", "os", "path",
    "punycode", "querystring", "readline", "repl", "stream",
    "string_decoder", "tls", "tty", "url", "util", "v8", "vm", "zlib" }

\* module in CORE_MODULES
IsCore(m) == Len(m) = 1 /\ m[1] \in CORE_MODULES

\* module.startswith('.')
StartsWithDot(m) == m # <<>> /\ Len(m[1]) > 0 /\ SubSeq(m[1], 1, 1) = "."

\* a is b, for strings made at run time
Is(a, b) == interned /\ a = b

-----------------------------------------------------------------------------
(* The require algorithm *)

RECURSIVE load_as_file_ext(_, _)
load_as_file_ext(p, i) ==
  IF i > Len(resolve_extensions) THEN None(<<>>)
  ELSE LET file == returnIfFile(Plus(p, resolve_extensions[i]), "")
       IN IF file.tag # "none" THEN file
          ELSE After(file.log, load_as_file_ext(p, i + 1))

\* mutant: the extensions are tried before the exact path
load_as_file_extension_first(p) ==
  LET file == load_as_file_ext(p, 1)
  IN IF file.tag # "none" THEN file
     ELSE After(file.log, returnIfFile(p, ""))

load_as_file(p) ==
  LET file == returnIfFile(p, "")
  IN IF file.tag # "none" THEN file
     ELSE After(file.log, load_as_file_ext(p, 1))

RECURSIVE load_index_ext(_, _)
load_index_ext(p, i) ==
  IF i > Len(resolve_extensions) THEN None(<<>>)
  ELSE LET file == returnIfFile(p, "index" \o resolve_extensions[i])
       IN IF file.tag # "none" THEN file
          ELSE After(file.log, load_index_ext(p, i + 1))

load_index(p) == load_index_ext(p, 1)

\* mutant: the index file is preferred to the manifest's entry
load_as_directory_index_first(p) ==
  LET index == load_index(p)
      package_path == returnIfFile(p, "package.json")
  IN IF index.tag # "none" THEN index
     ELSE IF package_path.tag = "none" THEN After(index.log, package_path)
     ELSE LET package_json == manifest[Normpath(package_path.val)]
          IN IF ~package_json.valid THEN Raise(package_path.val, index.log)
             ELSE load_as_file(Join(p, IF package_json.has_main
                                         THEN package_json.main
                                         ELSE <<"index.js">>))

load_as_directory(p) ==
  LET package_path == returnIfFile(p, "package.json")
  IN IF package_path.tag # "none"
       THEN LET package_json == manifest[Normpath(package_path.val)]
                read == package_path.log \o <<Open(package_path.val)>>
            IN IF ~package_json.valid
                 THEN Raise(package_path.val, read)
                 ELSE LET main == IF package_json.has_main
                                    THEN package_json.main
                                    ELSE <<"index.js">>
                          main_path == Join(p, main)
                      IN After(read, OrElse(load_as_file(main_path),
                                            load_index(main_path)))
       ELSE After(package_path.log, load_index(p))

RECURSIVE split_path_loop(_, _)
split_path_loop(p, folders) ==
  LET s == Split(p)
  IN IF s[2] # "" THEN split_path_loop(s[1], Append(folders, s[2]))
     ELSE IF s[1] # <<>> THEN Append(folders, s[1][1])
     ELSE folders

RECURSIVE Reverse(_)
Reverse(s) == IF s = <<>> THEN <<>> ELSE Append(Reverse(Tail(s)), Head(s))

split_path(start) ==
  LET s == Split(Normpath(start))
  IN Reverse(split_path_loop(s[1], <<s[2]>>))

RECURSIVE node_modules_paths_loop(_, _, _)
node_modules_paths_loop(parts, i, acc) ==
  IF i < 1 THEN acc
  ELSE IF Is(parts[i], "node_modules")
    THEN node_modules_paths_loop(parts, i - 1, acc)
    ELSE node_modules_paths_loop(parts, i - 1,
           Append(acc, JoinAll(Append(SubSeq(parts, 1, i), "node_modules"))))

node_modules_paths(start) ==
  LET parts == split_path(start)
  IN node_modules_paths_loop(parts, Len(parts), <<>>)

RECURSIVE load_node_modules_loop(_, _, _)
load_node_modules_loop(m, ds, k) ==
  IF k > Len(ds) THEN None(<<>>)
  ELSE LET p == Join(ds[k], m)
           file == OrElse(load_as_file(p), load_as_directory(p))
       IN IF file.tag # "none" THEN file
          ELSE After(file.log, load_node_modules_loop(m, ds, k + 1))

\* mutant: the directories are searched root first
load_node_modules_root_first(m, start) ==
  load_node_modules_loop(m, Reverse(node_modules_paths(start)), 1)

load_node_modules(m, start) ==
  load_node_modules_loop(m, node_modules_paths(start), 1)

\* mutant: core modules are looked up like any bare specifier
find_require_module_no_core(m, file_path) ==
  IF StartsWithDot(m)
    THEN LET p == Normpath(Join(file_path, m))
         IN OrElse(load_as_file(p), load_as_directory(p))
    ELSE load_node_modules(m, file_path)

find_require_module(m, file_path) ==
  IF IsCore(m) THEN Value(m, <<>>)
  ELSE IF StartsWithDot(m)
    THEN LET p == Normpath(Join(file_path, m))
         IN OrElse(load_as_file(p), load_as_directory(p))
    ELSE load_node_modules(m, file_path)

-----------------------------------------------------------------------------
(* The alias search and find_module *)

\* mutant: the extended path is probed before the exact one
find_import_candidate_extension_first(m, folder_path, extension) ==
  OrElse(returnIfFile(Join(folder_path, Plus(m, extension)), ""),
    OrElse(returnIfFile(Join(folder_path, m), ""),
           returnIfFile(Join(Join(folder_path, m), <<"index" \o extension>>), "")))

find_import_candidate(m, folder_path, extension) ==
  OrElse(returnIfFile(Join(folder_path, m), ""),
    OrElse(returnIfFile(Join(folder_path, Plus(m, extension)), ""),
           returnIfFile(Join(Join(folder_path, m), <<"index" \o extension>>), "")))

RECURSIVE find_import_module_loop(_, _, _, _, _, _)
find_import_module_loop(m, project_path, webpack_modules, webpack_extensions, r, e) ==
  IF r > Len(webpack_modules) THEN None(<<>>)
  ELSE IF e > Len(webpack_extensions)
    THEN find_import_module_loop(m, project_path, webpack_modules,
                                 webpack_extensions, r + 1, 1)
    ELSE LET folder_path == Join(project_path, webpack_modules[r])
             file == find_import_candidate(m, folder_path, webpack_extensions[e])
         IN IF file.tag # "none" THEN file
            ELSE After(file.log,
                   find_import_module_loop(m, project_path, webpack_modules,
                                           webpack_extensions, r, e + 1))

find_import_module(m, project_path, webpack_modules, webpack_extensions) ==
  IF webpack_modules = <<>> THEN None(<<>>)
  ELSE find_import_module_loop(m, project_path, webpack_modules,
                               webpack_extensions, 1, 1)

NotCalled == [tag |-> "not called", val |-> <<>>, log |-> <<>>]

\* line 234: the view's extensions, or else the setting
webpack_extensions ==
  IF webpack_resolve_extensions # <<>> THEN webpack_resolve_extensions
  ELSE resolve_extensions

\* line 241: return returnIfFile(match)
find_module_return(primary, check, alias) ==
  [match |-> primary, check |-> check, alias |-> alias,
   result |-> IF alias.tag = "not called" THEN returnIfFile(primary.val, "")
              ELSE returnIfFile(alias.val, "")]

\* mutant: the alias search runs whatever the primary resolution found
find_module_fallback_always(m, primary, check) ==
  find_module_return(primary, check,
    find_import_module(m, Proj, webpack_resolve_modules, webpack_extensions))

\* mutant: if not match, without the file check
find_module_fallback_if_none(m, primary, check) ==
  find_module_return(primary, check,
    IF primary.tag = "none"
      THEN find_import_module(m, Proj, webpack_resolve_modules,
                              webpack_extensions)
      ELSE NotCalled)

\* lines 231-236: if not match or not returnIfFile(match); the alias search
\* is NotCalled when the condition is false
find_module_fallback(m, primary, check) ==
  find_module_return(primary, check,
    IF primary.tag = "none" \/ check.tag = "none"
      THEN find_import_module(m, Proj, webpack_resolve_modules,
                              webpack_extensions)
      ELSE NotCalled)

\* lines 226-231; an exception of find_require_module leaves find_module,
\* which has no handler
find_module_match(m, primary) ==
  IF primary.tag = "raise"
    THEN [match |-> primary, check |-> NotCalled, alias |-> NotCalled,
          result |-> Raise(primary.val, <<>>)]
    ELSE find_module_fallback(m, primary,
           IF primary.tag = "none" THEN NotCalled
           ELSE returnIfFile(primary.val, ""))

find_module(m, file_path) ==
  find_module_match(m, find_require_module(m, file_path))

\* lines 215-220; open_module_file has no handler either
open_module_file_with(found) ==
  [fm |-> found,
   outcome |-> IF found.result.tag = "raise" THEN "unhandled exception"
               ELSE IF found.result.tag = "value" THEN "open_file"
               ELSE "browser"]

open_module_file(m, file_path) ==
  open_module_file_with(find_module(m, file_path))

-----------------------------------------------------------------------------
(* The state machine: a file system and settings, and one call at a time *)

NoCall == [match |-> NotCalled, check |-> NotCalled, alias |-> NotCalled,
           result |-> NotCalled]

NoArgs == [webpack_modules |-> <<>>, webpack_extensions |-> <<>>]

Idle ==
  /\ pc = "idle"
  /\ fn = "" /\ module = <<>> /\ path = <<>>
  /\ args = NoArgs
  /\ ret = NotCalled /\ dirs = <<>> /\ fm = NoCall /\ outcome = ""

Init ==
  /\ files \in { fs \in SUBSET FileUniverse :
                   Cardinality(fs) <= MaxFiles /\ Consistent(fs) }
  /\ manifest \in [files \cap ManifestPaths -> ManifestContents]
  /\ interned \in BOOLEAN
  /\ resolve_extensions \in ExtensionLists
  /\ webpack_resolve_modules \in AliasRoots
  /\ webpack_resolve_extensions \in AliasExtensionLists
  /\ Idle

Called(f, m, p, r) ==
  /\ pc = "idle"
  /\ pc' = "done"
  /\ fn' = f /\ module' = m /\ path' = p /\ ret' = r
  /\ UNCHANGED env

Call_load_as_file ==
  \E p \in ProbePaths :
    /\ Called("load_as_file", <<>>, p, load_as_file(p))
    /\ UNCHANGED <<args, dirs, fm, outcome>>

Call_load_as_directory ==
  \E p \in ProbePaths :
    /\ Called("load_as_directory", <<>>, p, load_as_directory(p))
    /\ UNCHANGED <<args, dirs, fm, outcome>>

Call_node_modules_paths ==
  \E start \in StartPaths :
    /\ Called("node_modules_paths", <<>>, start, NotCalled)
    /\ dirs' = node_modules_paths(start)
    /\ UNCHANGED <<args, fm, outcome>>

Call_find_require_module ==
  \E m \in Modules, file_path \in FilePaths :
    /\ Called("find_require_module", m, file_path,
              find_require_module(m, file_path))
    /\ dirs' = IF IsCore(m) \/ StartsWithDot(m) THEN <<>>
               ELSE node_modules_paths(file_path)
    /\ UNCHANGED <<args, fm, outcome>>

Call_find_import_module ==
  \E m \in AliasModules, roots \in AliasRoots, exts \in AliasCallExtensions :
    /\ Called("find_import_module", m, Proj,
              find_import_module(m, Proj, roots, exts))
    /\ args' = [webpack_modules |-> roots, webpack_extensions |-> exts]
    /\ UNCHANGED <<dirs, fm, outcome>>

Opened(m, file_path, done) ==
  /\ Called("open_module_file", m, file_path, done.fm.result)
  /\ fm' = done.fm
  /\ outcome' = done.outcome
  /\ args' = [webpack_modules |-> webpack_resolve_modules,
              webpack_extensions |-> webpack_extensions]
  /\ UNCHANGED dirs

Call_open_module_file ==
  \E m \in Modules, file_path \in FilePaths :
    Opened(m, file_path, open_module_file(m, file_path))

Return ==
  /\ pc = "done"
  /\ pc' = "idle"
  /\ fn' = "" /\ module' = <<>> /\ path' = <<>>
  /\ args' = NoArgs
  /\ ret' = NotCalled /\ dirs' = <<>> /\ fm' = NoCall /\ outcome' = ""
  /\ UNCHANGED env

Next ==
  \/ Call_load_as_file
  \/ Call_load_as_directory
  \/ Call_node_modules_paths
  \/ Call_find_require_module
  \/ Call_find_import_module
  \/ Call_open_module_file
  \/ Return

Spec == Init /\ [][Next]_vars

-----------------------------------------------------------------------------
(* Properties *)

Done(f) == pc = "done" /\ fn = f

Min(S) == CHOOSE x \in S : \A y \in S : x <= y

Bare(m) == ~IsCore(m) /\ ~StartsWithDot(m)

Pkg == <<"pkg">>

\* C1: for every core module name and every requesting directory and file
\* system, find_require_module returns exactly that name and makes no
\* file-system access on the way.
C1_CoreModuleShortCircuit ==
  /\ Done("find_require_module") =>
       /\ \A c \in CORE_MODULES :
            find_require_module(<<c>>, path) = Value(<<c>>, <<>>)
       /\ IsCore(module) => ret = Value(module, <<>>)
  /\ Done("open_module_file") /\ IsCore(module) =>
       fm.match = Value(module, <<>>)

C1_Witness ==
  /\ Done("find_require_module")
  /\ module = <<"fs">>
  /\ Cwd \o <<"fs">> \in files
  /\ ret.val = <<"fs">>

\* C2: load_as_file(P) returns P whenever P is a file, even if P+E is one
\* too; otherwise P+E for the first extension E in list order for which P+E
\* is a file; otherwise not-found.
C2_ExactFileWins ==
  Done("load_as_file") =>
    LET hits == { i \in 1..Len(resolve_extensions) :
                    Plus(path, resolve_extensions[i]) \in files }
    IN IF path \in files
         THEN ret.tag = "value" /\ ret.val = path
       ELSE IF hits # {}
         THEN /\ ret.tag = "value"
              /\ ret.val = Plus(path, resolve_extensions[Min(hits)])
       ELSE ret.tag = "none"

C2_Witness ==
  /\ Done("load_as_file")
  /\ path \in files
  /\ Plus(path, resolve_extensions[1]) \in files
  /\ ret.val = path

\* what one candidate directory d yields for the specifier m
Try(d, m) == OrElse(load_as_file(Join(d, m)), load_as_directory(Join(d, m)))

\* C3: for a bare specifier, load_node_modules visits the directories of
\* node_modules_paths(start) nearest ancestor first, root last, and returns
\* the result of the first of them in which the specifier resolves; it
\* returns not-found only when every one of them fails.
C3_NearestNodeModulesWins ==
  Done("find_require_module") /\ Bare(module) =>
    LET n == Len(dirs)
        hit == { k \in 1..n : Try(dirs[k], module).tag # "none" }
    IN /\ n > 0
       /\ dirs[1] = path \o <<"node_modules">>
       /\ dirs[n] = <<"/", "node_modules">>
       /\ \A i \in 1..n, j \in 1..n : i < j => Len(dirs[i]) > Len(dirs[j])
       /\ \A i \in 1..n :
            /\ dirs[i][Len(dirs[i])] = "node_modules"
            /\ SubSeq(dirs[i], 1, Len(dirs[i]) - 1) =
                 SubSeq(path, 1, Len(dirs[i]) - 1)
       /\ ret.log # <<>> /\ ret.log[1] = Stat(Join(dirs[1], module))
       /\ IF hit = {} THEN ret.tag = "none"
          ELSE /\ ret.tag = Try(dirs[Min(hit)], module).tag
               /\ ret.val = Try(dirs[Min(hit)], module).val

C3_Witness ==
  /\ Done("find_require_module")
  /\ module = Pkg /\ path = DirX
  /\ NearNM \o <<"pkg.js">> \in files
  /\ NM \o <<"pkg.js">> \in files
  /\ ret.val = NearNM \o <<"pkg.js">>

NodeModulesTwice(d) ==
  /\ Len(d) >= 2
  /\ d[Len(d)] = "node_modules"
  /\ d[Len(d) - 1] = "node_modules"

Emitted(d) == \E k \in 1..Len(dirs) : dirs[k] = d

\* C4: no directory emitted by node_modules_paths ends in
\* node_modules/node_modules: no candidate is emitted for an index whose
\* segment is "node_modules", and parts[0..i] + node_modules is emitted for
\* every other index.
C4_NodeModulesNeverDoubled ==
  Done("node_modules_paths") =>
    LET parts == split_path(path)
    IN /\ \A k \in 1..Len(dirs) : ~NodeModulesTwice(dirs[k])
       /\ \A i \in 1..Len(parts) :
            LET d == JoinAll(Append(SubSeq(parts, 1, i), "node_modules"))
            IN IF parts[i] = "node_modules" THEN ~Emitted(d) ELSE Emitted(d)

\* the manifest of directory d parses and its main entry is a file
MainIsFile(d) ==
  LET package_path == d \o <<"package.json">>
  IN /\ package_path \in files
     /\ manifest[package_path].valid
     /\ manifest[package_path].has_main
     /\ d \o manifest[package_path].main \in files

MainOf(d) == d \o manifest[d \o <<"package.json">>].main

C5_Directory ==
  Done("load_as_directory") /\ MainIsFile(path) =>
    ret.tag = "value" /\ ret.val = MainOf(path)

\* C5 as claimed: load_as_directory(D) returns D/M when D/package.json has
\* a main field M and D/M is a file, whatever index files D has; and so does
\* resolving a relative specifier that names D when D is not itself a file.
C5_ManifestEntryWins ==
  /\ C5_Directory
  /\ Done("find_require_module") /\ StartsWithDot(module) =>
       LET d == Normpath(Join(path, module))
       IN d \notin files /\ MainIsFile(d) =>
            ret.tag = "value" /\ ret.val = MainOf(d)

\* C5 as amended: load_as_directory(D) returns D/M when D/package.json has
\* a main field M and D/M is a file, whatever index files D has; and so does
\* resolving a relative specifier that names D when load_as_file(D) fails,
\* that is when neither D nor D+E, for a configured extension E, is a file.
C5_ManifestEntryWinsAfterFile ==
  /\ C5_Directory
  /\ Done("find_require_module") /\ StartsWithDot(module) =>
       LET d == Normpath(Join(path, module))
       IN /\ d \notin files
          /\ \A i \in 1..Len(resolve_extensions) :
               Plus(d, resolve_extensions[i]) \notin files
          /\ MainIsFile(d)
          => ret.tag = "value" /\ ret.val = MainOf(d)

C5_Witness ==
  /\ Done("find_require_module")
  /\ module = <<"..", "pkg">> /\ path = DirX
  /\ MainIsFile(NM \o Pkg)
  /\ NM \o <<"pkg", "index.js">> \in files
  /\ ret.val = NM \o <<"pkg", "lib", "entry.js">>

\* C6: when resolution reaches a directory whose package.json is not valid
\* JSON, the call ends in a manifest-parse-error outcome attributed to that
\* manifest, which is neither not-found nor an unhandled failure of the
\* caller, and the error aborts the resolution at once: nothing is probed
\* after the manifest is read and the alias search is not tried.
C6_ManifestParseErrorOutcome ==
  Done("open_module_file") /\ fm.match.tag = "raise" =>
    /\ ret.tag = "raise" /\ ret.val = fm.match.val
    /\ fm.match.log[Len(fm.match.log)] = Open(fm.match.val)
    /\ fm.alias = NotCalled
    /\ outcome \notin {"browser", "unhandled exception"}

C8_IndexAfterUnresolvedMain ==
  Done("load_as_directory") =>
    LET package_path == path \o <<"package.json">>
        hits == { i \in 1..Len(resolve_extensions) :
                    path \o <<"index" \o resolve_extensions[i]>> \in files }
    IN /\ package_path \in files
       /\ manifest[package_path].valid
       /\ LET main == IF manifest[package_path].has_main
                        THEN manifest[package_path].main
                        ELSE <<"index.js">>
          IN /\ load_as_file(path \o main).tag = "none"
             /\ load_index(path \o main).tag = "none"
       /\ hits # {}
       => /\ ret.tag = "value"
          /\ ret.val = path \o <<"index" \o resolve_extensions[Min(hits)]>>

\* the candidate of alias root r, extension e and sub-step k
Candidate(m, r, e, k) ==
  LET folder == Proj \o args.webpack_modules[r]
      extension == args.webpack_extensions[e]
  IN IF k = 1 THEN folder \o m
     ELSE IF k = 2 THEN folder \o Plus(m, extension)
     ELSE folder \o m \o <<"index" \o extension>>

Rank(t) == ((t[1] - 1) * Len(args.webpack_extensions) + (t[2] - 1)) * 3 + t[3]

\* C9: for non-empty alias roots, find_import_module returns the first
\* existing file in the order (alias root, extension, sub-step) with the
\* sub-steps specifier, specifier+E, specifier/index+E, probing the
\* candidates in that order and no further; it returns not-found only when
\* none of them is a file.
C9_AliasSearchOrder ==
  Done("find_import_module") /\ args.webpack_modules # <<>> =>
    LET all == (1..Len(args.webpack_modules))
                 \X (1..Len(args.webpack_extensions)) \X (1..3)
        hits == { t \in all : Candidate(module, t[1], t[2], t[3]) \in files }
    IN IF hits = {}
         THEN ret.tag = "none" /\ Len(ret.log) = Cardinality(all)
         ELSE LET first == CHOOSE t \in hits :
                             \A u \in hits : Rank(t) <= Rank(u)
              IN /\ ret.tag = "value"
                 /\ ret.val = Candidate(module, first[1], first[2], first[3])
                 /\ Len(ret.log) = Rank(first)
                 /\ ret.log[Len(ret.log)] = Stat(ret.val)

C9_Witness ==
  /\ Done("find_import_module")
  /\ module = Pkg
  /\ args.webpack_extensions = <<".js", ".json">>
  /\ args.webpack_modules # <<>>
  /\ files = { NM \o <<"pkg.json">>, Proj \o <<"src", "pkg.js">> }
  /\ ret.val = NM \o <<"pkg.json">>

\* C10 as claimed: what find_module returns, when nothing is raised, is
\* not-found or a path that is a file; it is never a core-module name; a
\* core-module name is checked as a file and, failing that, sent through
\* the alias search.
C10_ResultIsFileNeverCoreName ==
  Done("open_module_file") /\ ret.tag # "raise" =>
    /\ \/ ret.tag = "none"
       \/ ret.tag = "value" /\ IsFile(ret.val) /\ ~IsCore(ret.val)
    /\ IsCore(module) =>
         /\ fm.check.log = <<Stat(module)>>
         /\ fm.check.tag = "none" => fm.alias # NotCalled

\* C10 as amended: what find_module returns, when nothing is raised, is
\* not-found or a path that is a file; it is a core-module name only when a
\* file of that name exists in the working directory; a core-module name is
\* checked as a file and, failing that, sent through the alias search.
C10_ResultIsFile ==
  Done("open_module_file") /\ ret.tag # "raise" =>
    /\ \/ ret.tag = "none"
       \/ /\ ret.tag = "value"
          /\ IsFile(ret.val)
          /\ IsCore(ret.val) => Cwd \o ret.val \in files
    /\ IsCore(module) =>
         /\ fm.check.log = <<Stat(module)>>
         /\ fm.check.tag = "none" => fm.alias # NotCalled

C10_Witness ==
  /\ Done("open_module_file")
  /\ module = <<"fs">>
  /\ fm.check.tag = "none"
  /\ fm.alias.tag = "value"
  /\ ret.val = Proj \o <<"src", "fs.js">>
  /\ outcome = "open_file"

====
